---- MODULE Spec2Model ----
(***************************************************************************)
(* The MongoDB wire-protocol parser of protos/mongodb/mongodb_parser.go:   *)
(* the framer and dispatcher mongodbMessageParser, the per-opcode          *)
(* extractors and the decoder (readBytes, readInt32, readInt64, readCStr,  *)
(* readDocument, readDocumentStr, truncate).                               *)
(*                                                                         *)
(* A Go string and a Go []byte are sequences of byte values 0..255.  A Go  *)
(* slice index k (0-based) is position k+1 of the sequence.                *)
(***************************************************************************)
EXTENDS Integers, Sequences, FiniteSets, TLC

VARIABLES
    intBits,   \* width of Go's int in this build: 32 or 64
    pending,   \* bytes of the connection the stream layer has not delivered yet
    data,      \* s.data, the buffered bytes
    slack,     \* cap(s.data) - len(s.data)
    message,   \* s.message
    before,    \* s.message and s.data as they were when the last call started
    pc,        \* where the call is: "start" (about to be made), the name of the
               \* extractor it is about to enter, "returned" or "panic"
    d,         \* the decoder of the last call: [len, i, panic, lg]
    ret,       \* the two results of the last call, once pc = "returned"
    calls      \* number of calls of mongodbMessageParser so far

vars == <<intBits, pending, data, slack, message, before, pc, d, ret, calls>>

----------------------------------------------------------------------------
(* Bounds of the model.                                                    *)

\* largest number of documents an OP_REPLY of the inputs carries
MaxDocs == 2
\* largest spare capacity of s.data behind its length
MaxSlack == 1
\* largest number of deliveries of further bytes by the stream layer
MaxAppends == 1

----------------------------------------------------------------------------
(* Strings of the program, as bytes.                                       *)

S_find == <<102,105,110,100>>
S_otherCommand == <<111,116,104,101,114,67,111,109,109,97,110,100>>
S_msg == <<109,115,103>>
S_update == <<117,112,100,97,116,101>>
S_insert == <<105,110,115,101,114,116>>
S_getMore == <<103,101,116,77,111,114,101>>
S_delete == <<100,101,108,101,116,101>>
S_killCursors == <<107,105,108,108,67,117,114,115,111,114,115>>
\* ".$cmd"
S_cmdSuffix == <<46,36,99,109,100>>
\* "$err"
S_err == <<36,101,114,114>>
S_ismaster == <<105,115,109,97,115,116,101,114>>
S_count == <<99,111,117,110,116>>
S_findAndModify == <<102,105,110,100,65,110,100,77,111,100,105,102,121>>
S_null == <<110,117,108,108>>

\* OpCodes: the opcode table (numeric code -> name)
OpCodes ==
    [c \in {1, 1000, 2001, 2002, 2004, 2005, 2006, 2007} |->
        CASE c = 1    -> "OP_REPLY"
          [] c = 1000 -> "OP_MSG"
          [] c = 2001 -> "OP_UPDATE"
          [] c = 2002 -> "OP_INSERT"
          [] c = 2004 -> "OP_QUERY"
          [] c = 2005 -> "OP_GET_MORE"
          [] c = 2006 -> "OP_DELETE"
          [] c = 2007 -> "OP_KILL_CURSORS"]

\* UserCommands: the known-command list, in its order
UserCommands == <<S_ismaster, S_count, S_findAndModify>>

----------------------------------------------------------------------------
(* Integers.  TLC's integers are 32 bits wide, so a Go int of a 64-bit     *)
(* build that is 2^31 or more is held as Big (and -2^31 or less as -Big).  *)
(* Such a value is only ever compared with a slice length or capacity,     *)
(* which is far smaller, or stored.                                        *)

Big == 2147483647

\* a + b for a Go int b that may be Big
Plus(a, b) == IF b = Big THEN Big ELSE a + b

\* int(uint32(b[0])<<0 | uint32(b[1])<<8 | uint32(b[2])<<16 | uint32(b[3])<<24)
ToInt32(b) ==
    LET low == b[1] + 256 * b[2] + 65536 * b[3]
    IN  IF b[4] < 128 THEN low + 16777216 * b[4]
        ELSE IF intBits = 32 THEN low + 16777216 * (b[4] - 256)
        ELSE Big

\* int(uint64(b[0])<<0 | ... | uint64(b[7])<<56)
ToInt64(b) ==
    LET low == b[1] + 256 * b[2] + 65536 * b[3]
        hiZero == b[5] = 0 /\ b[6] = 0 /\ b[7] = 0 /\ b[8] = 0
        hiOnes == b[5] = 255 /\ b[6] = 255 /\ b[7] = 255 /\ b[8] = 255
    IN  IF intBits = 32
        THEN \* the conversion to a 32-bit int keeps the low 32 bits
             IF b[4] < 128 THEN low + 16777216 * b[4]
             ELSE low + 16777216 * (b[4] - 256)
        ELSE IF hiZero /\ b[4] < 128 THEN low + 16777216 * b[4]
        ELSE IF hiOnes /\ b[4] >= 128 THEN low + 16777216 * (b[4] - 256)
        ELSE IF b[8] >= 128 THEN 0 - Big
        ELSE Big

----------------------------------------------------------------------------
(* The decoder.  d.in always shares the backing array of s.data: its       *)
(* bytes are those of data, followed by the spare capacity (zeroed by the  *)
(* allocator).  A decoder value is [len, i, panic]: len(d.in), d.i and     *)
(* whether a run-time panic has been raised; lg is the log of reads.       *)

\* cap(d.in) = cap(s.data)
CapIn == Len(data) + slack

\* the byte at index k (0-based) of the backing array, k < CapIn
At(k) == IF k < Len(data) THEN data[k + 1] ELSE 0

\* d.in[lo:hi] as a sequence, for 0 <= lo <= hi <= CapIn
Slice(lo, hi) == [k \in 1..(hi - lo) |-> At(lo + k - 1)]

\* newDecoder
newDecoder == [len |-> Len(data), i |-> 0, panic |-> FALSE, lg |-> <<>>]

\* a log entry: function op returned, having moved the cursor from `from`
\* to `to` and read the bytes lo..hi-1 of the backing array, while len(d.in)
\* was `len`; top: called by the parser or an extractor, not by another read;
\* val: the integer returned, for readInt32
Entry(op, dec, from, to, lo, hi, err) ==
    [op |-> op, len |-> dec.len, from |-> from, to |-> to, lo |-> lo, hi |-> hi,
     err |-> err, top |-> TRUE, val |-> 0]

\* the reads logged between decoder states d0 and d1 were made by another read
Nested(d0, d1) ==
    [d1 EXCEPT !.lg = [k \in 1..Len(d1.lg) |->
        IF k > Len(d0.lg) THEN [d1.lg[k] EXCEPT !.top = FALSE] ELSE d1.lg[k]]]

\* d.in = d.in[:length]
truncate(dec, length) ==
    IF length < 0 \/ length > CapIn
    THEN [dec EXCEPT !.panic = TRUE]
    ELSE [dec EXCEPT !.len = length]

\* the result of a read on a decoder that has already panicked: nothing runs
Dead(dec) == [d |-> dec, v |-> <<>>, err |-> TRUE]

readBytes(dec, length) ==
    LET start == dec.i
        moved == [dec EXCEPT !.i = dec.i + length]
    IN  IF dec.panic THEN Dead(dec)
        ELSE IF moved.i > dec.len
        THEN [d |-> [moved EXCEPT !.lg = Append(@,
                        Entry("readBytes", dec, start, moved.i, start, start, TRUE))],
              v |-> <<>>, err |-> TRUE]
        ELSE [d |-> [moved EXCEPT !.lg = Append(@,
                        Entry("readBytes", dec, start, moved.i, start, start + length, FALSE))],
              v |-> Slice(start, start + length), err |-> FALSE]

readInt32(dec) ==
    LET r == readBytes(dec, 4)
        n == Nested(dec, r.d)
    IN  IF dec.panic THEN [d |-> dec, v |-> 0, err |-> TRUE]
        ELSE IF r.err
        THEN [d |-> [n EXCEPT !.lg = Append(@,
                        Entry("readInt32", dec, dec.i, n.i, dec.i, dec.i, TRUE))],
              v |-> 0, err |-> TRUE]
        ELSE [d |-> [n EXCEPT !.lg = Append(@,
                        [Entry("readInt32", dec, dec.i, n.i, dec.i, dec.i + 4, FALSE)
                            EXCEPT !.val = ToInt32(r.v)])],
              v |-> ToInt32(r.v), err |-> FALSE]

readInt64(dec) ==
    LET r == readBytes(dec, 8)
        n == Nested(dec, r.d)
    IN  IF dec.panic THEN [d |-> dec, v |-> 0, err |-> TRUE]
        ELSE IF r.err
        THEN [d |-> [n EXCEPT !.lg = Append(@,
                        Entry("readInt64", dec, dec.i, n.i, dec.i, dec.i, TRUE))],
              v |-> 0, err |-> TRUE]
        ELSE [d |-> [n EXCEPT !.lg = Append(@,
                        Entry("readInt64", dec, dec.i, n.i, dec.i, dec.i + 8, FALSE))],
              v |-> ToInt64(r.v), err |-> FALSE]

\* the index where readCStr's loop stops, from `end`: l, or that of a NUL
RECURSIVE ScanNul(_, _)
ScanNul(end, l) ==
    IF end = l THEN end
    ELSE IF At(end) = 0 THEN end
    ELSE ScanNul(end + 1, l)

readCStr(dec) ==
    LET start == dec.i
        l == dec.len
        end == ScanNul(start, l)
        moved == [dec EXCEPT !.i = end + 1]
    IN  IF dec.panic THEN Dead(dec)
        ELSE IF start > l
        THEN \* end != l holds and d.in[end] is indexed beyond len(d.in)
             [d |-> [dec EXCEPT !.panic = TRUE], v |-> <<>>, err |-> TRUE]
        ELSE IF moved.i > l
        THEN [d |-> [moved EXCEPT !.lg = Append(@,
                        Entry("readCStr", dec, start, moved.i, start, end, TRUE))],
              v |-> <<>>, err |-> TRUE]
        ELSE [d |-> [moved EXCEPT !.lg = Append(@,
                        Entry("readCStr", dec, start, moved.i, start, end + 1, FALSE))],
              v |-> Slice(start, end), err |-> FALSE]

----------------------------------------------------------------------------
(* Documents.  A decoded document (bson.M) is [nil, m]: nil for Go's nil   *)
(* map, m the map from key to value; a value is [isStr, n, s], an int32 n  *)
(* or a string s.                                                          *)

\* the member of a set of one member: Only({e(x) : x \in {v}}) is e(v), with v
\* evaluated once
Only(S) == CHOOSE x \in S : TRUE

EmptyMap == [k \in {} |-> 0]
NilDoc == [nil |-> TRUE, m |-> EmptyMap]
IntVal(n) == [isStr |-> FALSE, n |-> n, s |-> <<>>]
StrVal(s) == [isStr |-> TRUE, n |-> 0, s |-> s]

\* the signed value of a little-endian int32
Int32LE(b) ==
    LET low == b[1] + 256 * b[2] + 65536 * b[3]
    IN  IF b[4] < 128 THEN low + 16777216 * b[4] ELSE low + 16777216 * (b[4] - 256)

\* the index (0-based) of the first NUL of s at or after i, or Len(s)
RECURSIVE NulFrom(_, _)
NulFrom(s, i) ==
    IF i >= Len(s) THEN Len(s)
    ELSE IF s[i + 1] = 0 THEN i
    ELSE NulFrom(s, i + 1)

\* one element of a document of s, of kind `kind` and key `name`, whose value
\* starts at index j (0-based): [err, i, v], the value v and the index i after it
BsonElem(s, kind, j, end) ==
    LET bad == [err |-> TRUE, i |-> j, v |-> IntVal(0)]
        l == Int32LE(SubSeq(s, j + 1, j + 4))
        k == j + 4 + l
    IN  IF j + 4 > Len(s) THEN bad
        ELSE IF kind = 16
        THEN [err |-> FALSE, i |-> j + 4, v |-> IntVal(l)]
        ELSE IF kind = 2
        THEN IF l <= 0 \/ k > Len(s) THEN bad
             ELSE IF s[k] # 0 THEN bad
             ELSE [err |-> FALSE, i |-> k, v |-> StrVal(SubSeq(s, j + 5, k - 1))]
        ELSE bad

\* the elements of a document of s from index i (0-based) up to its end:
\* the map read into acc, or an error
RECURSIVE BsonElems(_, _, _, _)
BsonElems(s, i, end, acc) ==
    LET bad == [err |-> TRUE, doc |-> NilDoc]
    IN  IF s[i + 1] = 0
        THEN IF i + 1 = end THEN [err |-> FALSE, doc |-> [nil |-> FALSE, m |-> acc]]
             ELSE bad
        ELSE Only({
                 IF nul >= Len(s) \/ nul + 1 >= end THEN bad
                 ELSE Only({
                          IF e.err \/ e.i >= end THEN bad
                          ELSE Only({BsonElems(s, e.i, end, acc2) :
                                     acc2 \in {(SubSeq(s, i + 2, nul) :> e.v) @@ acc}})
                          : e \in {BsonElem(s, s[i + 1], nul + 1, end)}})
                 : nul \in {NulFrom(s, i + 1)}})

\* bson.Unmarshal(in, documentMap)
BsonUnmarshal(in) ==
    Only({
        LET bad == [err |-> TRUE, doc |-> NilDoc]
            end == Int32LE(SubSeq(s, 1, 4))
        IN  IF Len(s) < 4 THEN bad
            ELSE IF end <= 4 \/ end > Len(s) THEN bad
            ELSE IF s[end] # 0 THEN bad
            ELSE BsonElems(s, 4, end, EmptyMap)
        : s \in {in}})

\* the decimal digits of n >= 0
RECURSIVE Digits(_)
Digits(n) == IF n < 10 THEN <<48 + n>> ELSE Digits(n \div 10) \o <<48 + (n % 10)>>

\* json.Marshal of a document value
JsonVal(v) ==
    IF v.isStr THEN <<34>> \o v.s \o <<34>>
    ELSE IF v.n < 0 THEN <<45>> \o Digits(0 - v.n)
    ELSE Digits(v.n)

\* s sorts before t, as byte strings
RECURSIVE StrLess(_, _)
StrLess(s, t) ==
    IF t = <<>> THEN FALSE
    ELSE IF s = <<>> THEN TRUE
    ELSE IF Head(s) # Head(t) THEN Head(s) < Head(t)
    ELSE StrLess(Tail(s), Tail(t))

\* json.Marshal of a map: its keys in sorted order
RECURSIVE JsonMembers(_, _)
JsonMembers(m, keys) ==
    IF keys = {} THEN <<>>
    ELSE LET k == CHOOSE x \in keys : \A y \in keys \ {x} : StrLess(x, y)
             rest == JsonMembers(m, keys \ {k})
         IN  <<34>> \o k \o <<34, 58>> \o JsonVal(m[k])
                 \o (IF rest = <<>> THEN <<>> ELSE <<44>> \o rest)

\* doc2str of a document: string(json.Marshal(documentMap)) and its error
doc2str(documentMap) ==
    [s |-> IF documentMap.nil THEN S_null
           ELSE <<123>> \o JsonMembers(documentMap.m, DOMAIN documentMap.m) \o <<125>>,
     err |-> FALSE]

\* doc2str of one value of a document (mongoError)
doc2strVal(v) == [s |-> JsonVal(v), err |-> FALSE]

\* readDocument leaving the cursor behind the length prefix when decoding fails
readDocumentStaysOnError(dec) ==
    LET start == dec.i
    IN  IF dec.panic THEN [d |-> dec, v |-> NilDoc, err |-> TRUE]
        ELSE Only({
            LET documentLength == r.v
                moved == [Nested(dec, r.d) EXCEPT !.i = Plus(start, documentLength)]
            IN  IF moved.i < start \/ moved.i > CapIn
                THEN [d |-> [moved EXCEPT !.panic = TRUE], v |-> NilDoc, err |-> TRUE]
                ELSE Only({
                    [d |-> [moved EXCEPT
                              !.i = IF u.err THEN r.d.i ELSE @,
                              !.lg = Append(@,
                                Entry("readDocument", dec, start,
                                      IF u.err THEN r.d.i ELSE moved.i,
                                      start, moved.i, u.err))],
                     v |-> u.doc, err |-> u.err]
                    : u \in {BsonUnmarshal(Slice(start, moved.i))}})
            : r \in {readInt32(dec)}})

readDocument(dec) ==
    LET start == dec.i
    IN  IF dec.panic THEN [d |-> dec, v |-> NilDoc, err |-> TRUE]
        ELSE Only({
            LET documentLength == r.v
                moved == [Nested(dec, r.d) EXCEPT !.i = Plus(start, documentLength)]
            IN  IF moved.i < start \/ moved.i > CapIn
                THEN \* d.in[start:d.i] is out of range
                     [d |-> [moved EXCEPT !.panic = TRUE], v |-> NilDoc, err |-> TRUE]
                ELSE Only({
                    [d |-> [moved EXCEPT !.lg = Append(@,
                              Entry("readDocument", dec, start, moved.i, start, moved.i, u.err))],
                     v |-> u.doc, err |-> u.err]
                    : u \in {BsonUnmarshal(Slice(start, moved.i))}})
            : r \in {readInt32(dec)}})

readDocumentStr(dec) ==
    IF dec.panic THEN [d |-> dec, v |-> <<>>, err |-> TRUE]
    ELSE Only({
        IF r.d.panic THEN [d |-> r.d, v |-> <<>>, err |-> TRUE]
        ELSE Only({
            [d |-> [Nested(dec, r.d) EXCEPT !.lg = Append(@,
                      Entry("readDocumentStr", dec, dec.i, r.d.i, dec.i, r.d.i, s.err))],
             v |-> s.s, err |-> s.err]
            : s \in {doc2str(r.v)}})
        : r \in {readDocument(dec)}})

----------------
(* The message.  m.event (a map of mixed values) is held by type: ints and *)
(* strs map the keys set so far to an int or a string, and documents is    *)
(* the value of the key "documents" once hasDocs.                          *)

NoEvent == [ints |-> EmptyMap, strs |-> EmptyMap, hasDocs |-> FALSE, documents |-> <<>>]

\* a MongodbMessage with every field at its zero value
NewMessage ==
    [messageLength |-> 0, requestId |-> 0, responseTo |-> 0, opCode |-> "",
     IsResponse |-> FALSE, ExpectsResponse |-> FALSE, method |-> <<>>,
     error |-> <<>>, event |-> NoEvent]

\* m.event[key] = r.v for an int, unless the read r never returned
SetInt(m, key, r) ==
    IF r.d.panic THEN m ELSE [m EXCEPT !.event.ints = (key :> r.v) @@ @]

\* m.event[key] = r.v for a string, unless the read r never returned
SetStr(m, key, r) ==
    IF r.d.panic THEN m ELSE [m EXCEPT !.event.strs = (key :> r.v) @@ @]

\* strings.HasSuffix(s, suffix)
HasSuffix(s, suffix) ==
    /\ Len(s) >= Len(suffix)
    /\ SubSeq(s, Len(s) - Len(suffix) + 1, Len(s)) = suffix

\* ReplyStep that does not keep a document holding "$err"
ReplyStepDropsError(st, r, i) ==
    LET document == r.v
        isError == i = 0 /\ ~document.nil /\ S_err \in DOMAIN document.m
    IN  IF r.d.panic THEN [st EXCEPT !.d = r.d]
        ELSE IF isError
        THEN [d |-> r.d,
              m |-> [st.m EXCEPT !.error = doc2strVal(document.m[S_err]).s],
              err |-> FALSE,
              documents |-> st.documents]
        ELSE [d |-> r.d, m |-> st.m, err |-> doc2str(document).err,
              documents |-> [st.documents EXCEPT ![i + 1] = doc2str(document).s]]

\* one iteration of the loop of opReplyParse: st is [d, m, err, documents]
\* before it, r what readDocument returned
ReplyStep(st, r, i) ==
    LET document == r.v
        isError == i = 0 /\ ~document.nil /\ S_err \in DOMAIN document.m
    IN  IF r.d.panic THEN [st EXCEPT !.d = r.d]
        ELSE [d |-> r.d,
              m |-> IF isError
                    THEN [st.m EXCEPT !.error = doc2strVal(document.m[S_err]).s]
                    ELSE st.m,
              err |-> doc2str(document).err,
              documents |-> [st.documents EXCEPT ![i + 1] = doc2str(document).s]]

\* the loop of opReplyParse from iteration i
RECURSIVE ReplyLoop(_, _, _)
ReplyLoop(st, i, numberReturned) ==
    IF i >= numberReturned \/ st.d.panic THEN st
    ELSE Only({Only({ReplyLoop(st2, i + 1, numberReturned) :
                        st2 \in {ReplyStep(st, r, i)}}) :
               r \in {readDocument(st.d)}})

\* the last of `commands` that is a key of query, or method when none is
RECURSIVE CommandOf(_, _, _)
CommandOf(query, commands, method) ==
    IF commands = <<>> THEN method
    ELSE CommandOf(query, Tail(commands),
                   IF ~query.nil /\ Head(commands) \in DOMAIN query.m
                   THEN Head(commands) ELSE method)

\* m.method as opQueryParse sets it
MethodOf(fullCollectionName, query) ==
    IF HasSuffix(fullCollectionName, S_cmdSuffix)
    THEN CommandOf(query, UserCommands, S_otherCommand)
    ELSE S_find

\* the assignments of a case of the switch on s.message.opCode, before its call
Switch(m) ==
    CASE m.opCode = "OP_REPLY" -> [m EXCEPT !.IsResponse = TRUE]
      [] m.opCode = "OP_MSG" -> [m EXCEPT !.method = S_msg]
      [] m.opCode = "OP_UPDATE" -> [m EXCEPT !.method = S_update]
      [] m.opCode = "OP_INSERT" -> [m EXCEPT !.method = S_insert]
      [] m.opCode = "OP_QUERY" -> [m EXCEPT !.ExpectsResponse = TRUE]
      [] m.opCode = "OP_GET_MORE" ->
            [m EXCEPT !.method = S_getMore, !.ExpectsResponse = TRUE]
      [] m.opCode = "OP_DELETE" -> [m EXCEPT !.method = S_delete]
      [] m.opCode = "OP_KILL_CURSORS" -> [m EXCEPT !.method = S_killCursors]

\* Header, with the defaults of a known opcode written before the lookup
HeaderWithDefaults(m, length, requestId, responseTo) ==
    [m EXCEPT !.messageLength = length, !.requestId = requestId,
              !.responseTo = responseTo, !.IsResponse = FALSE,
              !.ExpectsResponse = FALSE, !.event = NoEvent]

\* the header fields the framer writes before it looks the opcode up
Header(m, length, requestId, responseTo) ==
    [m EXCEPT !.messageLength = length, !.requestId = requestId,
              !.responseTo = responseTo]

\* the fields and defaults the framer writes once the opcode is known
Framed(m, opCode) ==
    [m EXCEPT !.opCode = OpCodes[opCode], !.IsResponse = FALSE,
              !.ExpectsResponse = FALSE, !.event = NoEvent]

\* NotYetComplete with the comparison off by one
NotYetCompleteOffByOne(length) == length > Len(data) + 1

\* the length read by the framer is that of a message not yet complete
NotYetComplete(length) == length > Len(data)

----------------
(* The bytes on the wire.                                                  *)

\* the little-endian bytes of an int32
I32(n) ==
    LET low == n % 16777216
    IN  <<low % 256, (low \div 256) % 256, low \div 65536, (n \div 16777216) % 256>>

\* the little-endian bytes of an int64 that fits 32 bits
I64(n) == I32(n) \o (IF n < 0 THEN <<255, 255, 255, 255>> ELSE <<0, 0, 0, 0>>)

CStr(s) == s \o <<0>>

BsonInt(key, n) == <<16>> \o CStr(key) \o I32(n)
BsonStr(key, s) == <<2>> \o CStr(key) \o I32(Len(s) + 1) \o CStr(s)
BsonDoc(elems) == I32(Len(elems) + 5) \o elems \o <<0>>

\* {"a": 5}
DocA == BsonDoc(BsonInt(<<97>>, 5))
\* {"$err": "x"}
DocErr == BsonDoc(BsonStr(S_err, <<120>>))
\* {"ismaster": 1}
DocIsmaster == BsonDoc(BsonInt(S_ismaster, 1))
\* {"count": 1, "ismaster": 1}
DocCountIsmaster == BsonDoc(BsonInt(S_count, 1) \o BsonInt(S_ismaster, 1))
\* {}
DocEmpty == BsonDoc(<<>>)
\* five bytes that do not end in NUL
DocBad == I32(5) \o <<1>>
\* a document whose length prefix runs 8 bytes past its end
DocLong == I32(16) \o BsonInt(<<97>>, 0) \o <<0>>
\* a length prefix below the 4 bytes of the prefix itself
DocShort == I32(2) \o <<0>>
\* a length prefix with the top bit set
DocNeg == I32(0 - 1) \o <<0>>

\* "db.$cmd" and "db.users"
CollCmd == <<100, 98>> \o S_cmdSuffix
CollUsers == <<100,98,46,117,115,101,114,115>>

\* the concatenations of at most n members of docs
RECURSIVE Concats(_, _)
Concats(docs, n) ==
    IF n = 0 THEN {<<>>}
    ELSE Concats(docs, n - 1) \cup {a \o x : a \in Concats(docs, n - 1), x \in docs}

\* the opcodes of the inputs: those of the table, and two that are not in it
InputOpCodes == DOMAIN OpCodes \cup {0, 9999}

\* the payloads of the inputs for one opcode
Payloads(opCode) ==
    CASE opCode = 1 ->
            {I32(0) \o I64(7) \o I32(0) \o I32(n) \o docs :
                n \in (IF intBits = 32 THEN 0 - 1 ELSE 0)..MaxDocs,
                docs \in Concats({DocA, DocErr, DocBad}, MaxDocs)}
      [] opCode = 1000 -> {CStr(<<120>>), <<120>>, <<>>}
      [] opCode = 2001 ->
            {I32(0) \o CStr(CollUsers) \o I32(0) \o sel \o upd :
                sel \in {DocA, DocBad, DocLong},
                upd \in {DocA, DocBad}}
      [] opCode = 2002 -> {I32(0) \o CStr(CollUsers), I32(0) \o CollUsers}
      [] opCode = 2004 ->
            {I32(0) \o CStr(coll) \o I32(0) \o I32(1) \o query \o fields :
                coll \in {CollCmd, CollUsers},
                query \in {DocIsmaster, DocCountIsmaster, DocA, DocEmpty,
                           DocBad, DocLong, DocNeg},
                fields \in {<<>>, DocA}}
      [] opCode = 2005 ->
            {I32(0) \o CStr(CollUsers) \o I32(1) \o I64(c) : c \in {7, 0 - 1}}
      [] opCode = 2006 ->
            {I32(0) \o coll \o I32(0) \o sel :
                coll \in {CStr(CollUsers), CollUsers},
                sel \in {DocA, DocBad, DocLong, DocNeg, DocShort}}
      [] OTHER -> {<<>>, I32(0)}

\* the declared lengths of the inputs, for a message of `actual` bytes
Declared(actual) ==
    {actual, actual - 1, actual + 4, 16, 12, 0 - 1}

\* a complete OP_KILL_CURSORS message, as the message after the first
NextMessage == I32(16) \o I32(2) \o I32(0) \o I32(2007)

\* the first messages of the inputs with one opcode
MessagesOf(opCode) ==
    UNION {{I32(length) \o I32(1) \o I32(0) \o I32(opCode) \o payload :
               length \in Declared(16 + Len(payload))} :
           payload \in Payloads(opCode)}

\* the first messages of the inputs
Messages == UNION {MessagesOf(opCode) : opCode \in InputOpCodes}

\* a message that an earlier use has filled in
StaleMessage ==
    [messageLength |-> 99, requestId |-> 98, responseTo |-> 97, opCode |-> "OP_MSG",
     IsResponse |-> TRUE, ExpectsResponse |-> TRUE, method |-> S_msg,
     error |-> <<120>>,
     event |-> [NoEvent EXCEPT !.strs = ("message" :> <<120>>)]]

\* the results before any call has returned
NoReturn == [ok |-> FALSE, complete |-> FALSE]

----------------------------------------------------------------------------
(* The state machine.                                                      *)

Init ==
    /\ intBits \in {32, 64}
    /\ \E first \in Messages : \E k \in {3, 18, Len(first), Len(first) + Len(NextMessage)} :
          /\ data = SubSeq(first \o NextMessage, 1, k)
          /\ pending = SubSeq(first \o NextMessage, k + 1, Len(first) + Len(NextMessage))
    /\ slack \in 0..MaxSlack
    /\ message \in {NewMessage, StaleMessage}
    /\ before = [message |-> message, data |-> data]
    /\ pc = "start"
    /\ d = newDecoder
    /\ ret = NoReturn
    /\ calls = 0

\* the call ends: with the panic dec carries, or returning (ok, complete)
Finish(dec, m, ok, complete) ==
    /\ d' = dec
    /\ message' = m
    /\ pc' = IF dec.panic THEN "panic" ELSE "returned"
    /\ ret' = IF dec.panic THEN NoReturn ELSE [ok |-> ok, complete |-> complete]

\* mongodbMessageParser(s), up to the call of the extractor
mongodbMessageParser ==
    /\ pc = "start"
    /\ before' = [message |-> message, data |-> data]
    /\ calls' = calls + 1
    /\ \E r0 \in {readInt32(newDecoder)} :
          IF r0.err \/ NotYetComplete(r0.v)
          THEN Finish(r0.d, message, TRUE, FALSE)
          ELSE \E d1 \in {truncate(r0.d, r0.v)} :
               \E r2 \in {readInt32(d1)} :
               \E r3 \in {readInt32(r2.d)} :
               \E r4 \in {readInt32(r3.d)} :
                  LET length == r0.v
                      opCode == r4.v
                      m3 == Header(message, length, r2.v, r3.v)
                  IN  IF d1.panic THEN Finish(d1, message, FALSE, FALSE)
                      ELSE IF opCode \notin DOMAIN OpCodes
                      THEN Finish(r4.d, m3, FALSE, FALSE)
                      ELSE /\ d' = r4.d
                           /\ message' = Switch(Framed(m3, opCode))
                           /\ pc' = OpCodes[opCode]
                           /\ ret' = ret
    /\ UNCHANGED <<intBits, pending, data, slack>>

opReplyParse ==
    /\ pc = "OP_REPLY"
    /\ \E r1 \in {readInt32(d)} :
       \E r2 \in {readInt64(r1.d)} :
       \E r3 \in {readInt32(r2.d)} :
       \E r4 \in {readInt32(r3.d)} :
          LET numberReturned == r4.v
              m4 == SetInt(SetInt(SetInt(message, "cursorId", r2),
                                  "startingFrom", r3), "numberReturned", r4)
          IN  IF numberReturned < 0
              THEN \* make([]string, numberReturned)
                   Finish([r4.d EXCEPT !.panic = TRUE], m4, FALSE, FALSE)
              ELSE \E st0 \in {[d |-> r4.d, m |-> m4, err |-> r4.err,
                               documents |-> [k \in 1..numberReturned |-> <<>>]]} :
                   \E st \in {ReplyLoop(st0, 0, numberReturned)} :
                      IF st.d.panic THEN Finish(st.d, st.m, FALSE, FALSE)
                      ELSE Finish(st.d,
                                  [st.m EXCEPT !.event.hasDocs = TRUE,
                                               !.event.documents = st.documents],
                                  ~st.err, ~st.err)
    /\ UNCHANGED <<intBits, pending, data, slack, before, calls>>

opMsgParse ==
    /\ pc = "OP_MSG"
    /\ \E r1 \in {readCStr(d)} :
          Finish(r1.d, SetStr(message, "message", r1), ~r1.err, ~r1.err)
    /\ UNCHANGED <<intBits, pending, data, slack, before, calls>>

opUpdateParse ==
    /\ pc = "OP_UPDATE"
    /\ \E r1 \in {readInt32(d)} :
       \E r2 \in {readCStr(r1.d)} :
       \E r3 \in {readInt32(r2.d)} :
       \E r4 \in {readDocumentStr(r3.d)} :
       \E r5 \in {readDocumentStr(r4.d)} :
          Finish(r5.d,
                 SetStr(SetStr(SetStr(message, "fullCollectionName", r2),
                               "selector", r4), "update", r5),
                 ~r5.err, ~r5.err)
    /\ UNCHANGED <<intBits, pending, data, slack, before, calls>>

opInsertParse ==
    /\ pc = "OP_INSERT"
    /\ \E r1 \in {readInt32(d)} :
       \E r2 \in {readCStr(r1.d)} :
          Finish(r2.d, SetStr(message, "fullCollectionName", r2), ~r2.err, ~r2.err)
    /\ UNCHANGED <<intBits, pending, data, slack, before, calls>>

opQueryParse ==
    /\ pc = "OP_QUERY"
    /\ \E r1 \in {readInt32(d)} :
       \E r2 \in {readCStr(r1.d)} :
       \E r3 \in {readInt32(r2.d)} :
       \E r4 \in {readInt32(r3.d)} :
       \E r5 \in {readDocument(r4.d)} :
       \E more \in {~r5.d.panic /\ r5.d.i < r5.d.len} :
       \E r6 \in {IF more THEN readDocumentStr(r5.d) ELSE r5} :
       \E s \in {doc2str(r5.v)} :
          LET fullCollectionName == r2.v
              query == r5.v
              m4 == SetInt(SetInt(SetStr(message, "fullCollectionName", r2),
                                  "numberToSkip", r3), "numberToReturn", r4)
              m6 == IF more THEN SetStr(m4, "returnFieldsSelector", r6) ELSE m4
              m8 == [m6 EXCEPT !.method = MethodOf(fullCollectionName, query),
                               !.event.strs = ("query" :> s.s) @@ @]
          IN  IF r6.d.panic THEN Finish(r6.d, m6, FALSE, FALSE)
              ELSE Finish(r6.d, m8, ~s.err, ~s.err)
    /\ UNCHANGED <<intBits, pending, data, slack, before, calls>>

\* opGetMoreParse asking for more data when a read failed
opGetMoreParseAsksMore ==
    /\ pc = "OP_GET_MORE"
    /\ \E r1 \in {readInt32(d)} :
       \E r2 \in {readCStr(r1.d)} :
       \E r3 \in {readInt32(r2.d)} :
       \E r4 \in {readInt64(r3.d)} :
          Finish(r4.d,
                 SetInt(SetInt(SetStr(message, "fullCollectionName", r2),
                               "numberToReturn", r3), "cursorId", r4),
                 TRUE, ~r4.err)
    /\ UNCHANGED <<intBits, pending, data, slack, before, calls>>

opGetMoreParse ==
    /\ pc = "OP_GET_MORE"
    /\ \E r1 \in {readInt32(d)} :
       \E r2 \in {readCStr(r1.d)} :
       \E r3 \in {readInt32(r2.d)} :
       \E r4 \in {readInt64(r3.d)} :
          Finish(r4.d,
                 SetInt(SetInt(SetStr(message, "fullCollectionName", r2),
                               "numberToReturn", r3), "cursorId", r4),
                 ~r4.err, ~r4.err)
    /\ UNCHANGED <<intBits, pending, data, slack, before, calls>>

opDeleteParse ==
    /\ pc = "OP_DELETE"
    /\ \E r1 \in {readInt32(d)} :
       \E r2 \in {readCStr(r1.d)} :
       \E r3 \in {readInt32(r2.d)} :
       \E r4 \in {readDocumentStr(r3.d)} :
          Finish(r4.d,
                 SetStr(SetStr(message, "fullCollectionName", r2), "selector", r4),
                 ~r4.err, ~r4.err)
    /\ UNCHANGED <<intBits, pending, data, slack, before, calls>>

opKillCursorsParse ==
    /\ pc = "OP_KILL_CURSORS"
    /\ Finish(d, message, TRUE, TRUE)
    /\ UNCHANGED <<intBits, pending, data, slack, before, calls>>

\* the stream layer appends bytes that arrived to s.data and calls again
Deliver ==
    /\ pc = "returned" /\ ret.ok /\ ~ret.complete
    /\ pending # <<>>
    /\ calls <= MaxAppends
    /\ \E k \in {Len(pending), (Len(pending) + 1) \div 2} :
          /\ data' = data \o SubSeq(pending, 1, k)
          /\ pending' = SubSeq(pending, k + 1, Len(pending))
    /\ slack' \in 0..MaxSlack
    /\ pc' = "start"
    /\ UNCHANGED <<intBits, message, before, d, ret, calls>>

Next ==
    \/ mongodbMessageParser
    \/ opReplyParse
    \/ opMsgParse
    \/ opUpdateParse
    \/ opInsertParse
    \/ opQueryParse
    \/ opGetMoreParse
    \/ opDeleteParse
    \/ opKillCursorsParse
    \/ Deliver

Spec == Init /\ [][Next]_vars

----------------------------------------------------------------------------
(* What the properties speak of.                                           *)

\* a call has been made on the bytes now buffered, and has ended or is in an
\* extractor
Called == pc # "start"

\* the last call returned
Returned == pc = "returned"

\* the declared messageLength of the buffered bytes, as a signed int32
DeclaredLength == Int32LE(SubSeq(data, 1, 4))

\* the opcode of the buffered header, as a signed int32
DeclaredOpCode == Int32LE(SubSeq(data, 13, 16))

\* the reads of the last call made by the parser or an extractor itself
TopReads == {k \in DOMAIN d.lg : d.lg[k].top}

\* the reads of the last call made by its extractor
FieldReads == {k \in TopReads : d.lg[k].from >= 16}

\* the last call got past the framer's lookup of the opcode, into an extractor
Dispatched ==
    \E k \in TopReads :
        /\ d.lg[k].from = 12
        /\ ~d.lg[k].err
        /\ d.lg[k].val \in DOMAIN OpCodes

\* the last call got past the framer into the extractor of opcode c
DispatchedTo(c) ==
    \E k \in TopReads : d.lg[k].from = 12 /\ ~d.lg[k].err /\ d.lg[k].val = c

----------------------------------------------------------------------------
(* C1: for every input, mongodbMessageParser ends by returning its two     *)
(* results; no step of the framer, an extractor or the decoder indexes or  *)
(* slices out of range or otherwise aborts.                                *)
C1_NeverPanics == pc # "panic"

----------------------------------------------------------------------------
(* C2: with fewer than 4 bytes buffered, or a declared messageLength       *)
(* greater than the number of buffered bytes, the call returns (true,      *)
(* false) and leaves the message and the buffer as they were; the call     *)
(* made after more bytes were appended reads from offset 0 of the whole    *)
(* buffer.                                                                 *)
C2_NeedMoreData ==
    /\ (Called /\ (Len(data) < 4 \/ DeclaredLength > Len(data))) =>
          /\ Returned
          /\ ret = [ok |-> TRUE, complete |-> FALSE]
          /\ message = before.message
          /\ data = before.data
          /\ \A k \in DOMAIN d.lg : d.lg[k].from = 0
    /\ (Called /\ calls > 1) =>
          /\ d.lg[1].from = 0
          /\ d.lg[1].len = Len(data)

\* a second call, after bytes were appended, that still lacks bytes of the message
C2_Witness ==
    /\ Returned /\ calls = 2
    /\ Len(data) >= 4 /\ DeclaredLength > Len(data)
    /\ Len(data) > Len(before.data) - 1
    /\ ret = [ok |-> TRUE, complete |-> FALSE]

----------------------------------------------------------------------------
(* C3: once the framer has narrowed the view to messageLength bytes, no    *)
(* read touches a buffered byte at an offset >= messageLength; the bytes   *)
(* handed to the document decoder hold no byte of the next message.        *)
C3_NoReadPastMessage ==
    \A k \in DOMAIN d.lg :
        \A o \in d.lg[k].lo..(d.lg[k].hi - 1) :
            o < Len(data) => o < d.lg[k].len

----------------------------------------------------------------------------
(* C4: in every extractor, once one of its field reads fails (a truncated  *)
(* integer, an unterminated C-string, bytes that are no valid document),   *)
(* the extractor reports invalid and makes no further field read.          *)

\* field read k of the last call failed
FieldFailed(k) ==
    \/ d.lg[k].err
    \/ d.lg[k].op = "readDocumentStr" /\ d.lg[k - 1].err

C4_FirstFailureStops ==
    Returned =>
        \A k \in FieldReads :
            FieldFailed(k) => (~ret.ok /\ \A j \in FieldReads : j <= k)

----------------------------------------------------------------------------
----------------------------------------------------------------------------
(* C6: for a complete buffered message whose opCode is not in the opcode   *)
(* table the call fails (ok = false), enters no extractor and leaves the   *)
(* message's event, method, error, opCode name, IsResponse and             *)
(* ExpectsResponse as they were.                                           *)
C6_UnknownOpCode ==
    (/\ Called
     /\ Len(data) >= 16
     /\ DeclaredLength >= 16 /\ DeclaredLength <= Len(data)
     /\ DeclaredOpCode \notin DOMAIN OpCodes) =>
        /\ Returned
        /\ ~ret.ok
        /\ FieldReads = {}
        /\ message.event = before.message.event
        /\ message.method = before.message.method
        /\ message.error = before.message.error
        /\ message.opCode = before.message.opCode
        /\ message.IsResponse = before.message.IsResponse
        /\ message.ExpectsResponse = before.message.ExpectsResponse

\* opcode 9999 in a complete message, on a message that held fields before
C6_Witness ==
    /\ Returned
    /\ Len(data) >= 16
    /\ DeclaredLength >= 16 /\ DeclaredLength <= Len(data)
    /\ DeclaredOpCode = 9999
    /\ before.message = StaleMessage
    /\ message.messageLength = DeclaredLength
    /\ message.event = StaleMessage.event

----------------------------------------------------------------------------
(* C7: for an OP_QUERY, method is "find" unless fullCollectionName ends    *)
(* with ".$cmd"; then it is the first entry of the known-command list      *)
(* that is a top-level key of the decoded query, and "otherCommand" when   *)
(* no entry is.                                                            *)

\* the first of `commands` that is a key of query, or "otherCommand"
RECURSIVE FirstCommand(_, _)
FirstCommand(query, commands) ==
    IF commands = <<>> THEN S_otherCommand
    ELSE IF ~query.nil /\ Head(commands) \in DOMAIN query.m THEN Head(commands)
    ELSE FirstCommand(query, Tail(commands))

\* the query document of the OP_QUERY the last call decoded
QueryDocument ==
    LET k == CHOOSE j \in FieldReads : d.lg[j].op = "readDocument"
    IN  BsonUnmarshal(Slice(d.lg[k].lo, d.lg[k].hi)).doc

C7_FirstMatch ==
    (Returned /\ DispatchedTo(2004)) =>
        message.method =
            IF HasSuffix(message.event.strs["fullCollectionName"], S_cmdSuffix)
            THEN FirstCommand(QueryDocument, UserCommands)
            ELSE S_find

----------------------------------------------------------------------------
(* C8: for an OP_REPLY with numberReturned = n >= 0 followed by n valid    *)
(* documents, exactly n documents are read and event.documents holds the   *)
(* texts of the n documents in wire order; when the first document has     *)
(* the key "$err", error is set from its value and all n are kept.         *)

\* the bytes of the document that starts at offset off, by its length prefix
WireDocument(off) == Slice(off, off + Int32LE(Slice(off, off + 4)))

\* n valid documents lie from offset off within the first len bytes
RECURSIVE ValidDocuments(_, _, _)
ValidDocuments(off, n, len) ==
    \/ n = 0
    \/ /\ off + 4 <= len
       /\ Int32LE(Slice(off, off + 4)) >= 5
       /\ off + Int32LE(Slice(off, off + 4)) <= len
       /\ ~BsonUnmarshal(WireDocument(off)).err
       /\ ValidDocuments(off + Int32LE(Slice(off, off + 4)), n - 1, len)

\* the texts of the n documents from offset off
RECURSIVE DocumentTexts(_, _)
DocumentTexts(off, n) ==
    IF n = 0 THEN <<>>
    ELSE <<doc2str(BsonUnmarshal(WireDocument(off)).doc).s>>
             \o DocumentTexts(off + Int32LE(Slice(off, off + 4)), n - 1)

\* the last call returned from an OP_REPLY with its n documents all valid
ValidReply ==
    /\ Returned /\ DispatchedTo(1)
    /\ DeclaredLength >= 36
    /\ Int32LE(Slice(32, 36)) >= 0
    /\ ValidDocuments(36, Int32LE(Slice(32, 36)), DeclaredLength)

C8_ReplyDocuments ==
    ValidReply =>
        LET n == Int32LE(Slice(32, 36))
            first == BsonUnmarshal(WireDocument(36)).doc
        IN  /\ Cardinality({k \in FieldReads : d.lg[k].op = "readDocument"}) = n
            /\ message.event.hasDocs
            /\ message.event.documents = DocumentTexts(36, n)
            /\ (n > 0 /\ S_err \in DOMAIN first.m) =>
                  message.error = JsonVal(first.m[S_err])

\* a reply of two valid documents, the first holding "$err"
C8_Witness ==
    /\ ValidReply
    /\ Int32LE(Slice(32, 36)) = 2
    /\ S_err \in DOMAIN BsonUnmarshal(WireDocument(36)).doc.m
    /\ Len(message.event.documents) = 2
    /\ message.event.documents[1] # message.event.documents[2]
    /\ message.error = <<34, 120, 34>>

----------------------------------------------------------------------------
(* C9: whenever the call gets past the need-more-data checks and records   *)
(* header fields, the recorded messageLength is >= 16 and the three        *)
(* remaining header reads succeeded on 16 buffered bytes.                  *)
C9_HeaderOf16Bytes ==
    (Called /\ \E k \in TopReads : d.lg[k].from = 4) =>
        /\ message.messageLength >= 16
        /\ \A k \in TopReads : d.lg[k].from \in {4, 8, 12} => ~d.lg[k].err

----------------------------------------------------------------------------
====
